---- MODULE Spec2Model ----
(***************************************************************************)
(* The catalog storage layer of niobium (src/src/db.rs): one SQLite        *)
(* connection behind a tokio Mutex, the schema bootstrap, and the seven    *)
(* catalog operations.  Every operation is modelled statement by           *)
(* statement: lock().await, prepare, then one step per execute / one step  *)
(* for query_map+collect, then the return that drops statement and guard.  *)
(*                                                                         *)
(* A path or a prefix is the sequence of its characters; an SQL text is    *)
(* the sequence of the string pieces the code concatenates.                *)
(***************************************************************************)
EXTENDS Integers, Sequences, FiniteSets, TLC

\* ------------------------------------------------------------------ bounds
\* Calls issued in one behaviour.
MaxCalls == 2
\* Storage faults (SQLITE_IOERR, SQLITE_FULL, ...) the environment injects.
MaxFaults == 1
\* Longest batch handed to a mutation.
MaxBatch == 2

\* ------------------------------------------------------------------ inputs
Tasks == {"t1", "t2"}

P_ab   == <<"/", "a", "/", "b">>
P_abc  == <<"/", "a", "/", "b", "c">>
P_ab_c == <<"/", "a", "/", "b", "/", "c">>

\* A Photo as a caller builds it.  meta stands for the fifteen metadata
\* fields sort_order .. sensitivity taken together.
MkPhoto(f, p, u, m, x) == [filename |-> f, path |-> p, uid |-> u, md5 |-> m, meta |-> x]

p1 == MkPhoto("f1", P_ab,   "u1", "m1", "default")
p2 == MkPhoto("f2", P_abc,  "u2", "m2", "default")
p3 == MkPhoto("f3", P_ab_c, "u3", "m3", "default")
\* Same uid as p1, every other field different, caller-set metadata.
p4 == MkPhoto("f4", P_ab,   "u1", "m4", "custom")

PhotoInputs == {p1, p2, p3, p4}

AllInsertBatches ==
    { <<>>, <<p1>>, <<p2>>, <<p3>>, <<p4>>, <<p2, p3>>, <<p1, p4>>, <<p2, p3, p1>>, <<p3, p2, p2>> }
AllRemoveBatches ==
    { <<p1>>, <<p2>>, <<p1, p1>>, <<p3, p1>>, <<p1, p2, p3>> }
AllMoveBatches ==
    { <<<<p1, p3>>>>, <<<<p2, p1>>>>, <<<<p3, p4>>>>, <<<<p3, p4>>, <<p2, p1>>>>, <<<<p1, p2>>, <<p2, p3>>, <<p3, p1>>>> }

InsertInputs == {b \in AllInsertBatches : Len(b) <= MaxBatch}
RemoveInputs == {b \in AllRemoveBatches : Len(b) <= MaxBatch}
MoveInputs   == {b \in AllMoveBatches : Len(b) <= MaxBatch}

PrefixInputs == { P_ab, P_abc, <<>> }
PathsInputs  == { <<>>, <<P_ab, P_abc>> }
PathInputs   == { P_ab }
\* <<sort_columns, reverse_sort_order>>
SortInputs   ==
    { << <<>>, FALSE >>, << <<"filename">>, FALSE >>, << <<"filename">>, TRUE >>,
      << <<"path", "uid">>, TRUE >>, << <<"bogus">>, FALSE >>, << <<"random()">>, FALSE >> }

\* The calls a task may issue.
OpInputs ==
    { [kind |-> "get_existing_uids"] }
    \cup { [kind |-> "get_paths_starting_with", path |-> p] : p \in PrefixInputs }
    \cup { [kind |-> "get_photos_in_paths", paths |-> ps] : ps \in PathsInputs }
    \cup { [kind |-> "get_photos_in_path", path |-> p, sort_columns |-> sc[1], reverse_sort_order |-> sc[2]] :
             p \in PathInputs, sc \in SortInputs }
    \cup { [kind |-> "insert_photos", photos |-> b] : b \in InsertInputs }
    \cup { [kind |-> "remove_photos", photos |-> b] : b \in RemoveInputs }
    \cup { [kind |-> "move_photos", photos_pairs |-> b] : b \in MoveInputs }

NoOp == [kind |-> "none"]

Mutations == {"insert_photos", "remove_photos", "move_photos"}
Queries   == {"get_existing_uids", "get_paths_starting_with", "get_photos_in_paths", "get_photos_in_path"}

\* ------------------------------------------------------------------ helpers
Range(s) == { s[k] : k \in 1..Len(s) }

NoDup(s) == \A a, b \in 1..Len(s) : s[a] = s[b] => a = b

\* Every arrangement of the elements of s.
Perms(s) ==
    LET n == Len(s)
        bij == { f \in [1..n -> 1..n] : \A a, b \in 1..n : f[a] = f[b] => a = b }
    IN { [k \in 1..n |-> s[f[k]]] : f \in bij }

SetMax(S) == CHOOSE m \in S : \A k \in S : k <= m

Min2(a, b) == IF a < b THEN a ELSE b
Max2(a, b) == IF a > b THEN a ELSE b

\* The place of v in the list order: SQLite's BINARY collation on the
\* values the inputs can store.
RankIn(order, v) == CHOOSE k \in 1..Len(order) : order[k] = v

\* ------------------------------------------------------------------ store
\* The columns of table photo, in the order row_to_photo reads them.
PhotoFields ==
    { "id", "filename", "path", "uid", "md5", "sort_order", "hidden", "metadata_parsed",
      "width", "height", "color", "title", "place", "date_taken", "camera_model",
      "lens_mode", "focal_length", "aperture", "exposure_time", "sensitivity" }

\* What the schema stores in the columns an INSERT does not name.
SchemaDefault == "default"

\* Mutant of UidConflict: a schema without the uniqueness constraint.
NoUidConstraint(rs, uid) == FALSE

\* The schema's uniqueness constraint on uid.
UidConflict(rs, uid) == \E k \in 1..Len(rs) : rs[k].uid = uid

\* The storage-assigned surrogate key of a new row.
NewRowId(rs) == IF rs = <<>> THEN 1 ELSE SetMax({ rs[k].id : k \in 1..Len(rs) }) + 1

\* Mutant of MkRow: the INSERT names every column, so the metadata of the
\* input is stored too.
MkRowAllColumns(id, photo) ==
    [id |-> id, filename |-> photo.filename, path |-> photo.path, uid |-> photo.uid,
     md5 |-> photo.md5, meta |-> photo.meta]

\* The row an INSERT of (filename, path, uid, md5) creates.
MkRow(id, photo) ==
    [id |-> id, filename |-> photo.filename, path |-> photo.path, uid |-> photo.uid,
     md5 |-> photo.md5, meta |-> SchemaDefault]

\* Stores a process may find at DATABASE_PATH: no table yet, an empty table,
\* the three paths of the prefix example, and a table with two rows in one
\* path, one of them with metadata columns row_to_photo cannot decode.
StoreInputs ==
    { [table |-> FALSE, rows |-> <<>>],
      [table |-> TRUE,  rows |-> <<>>],
      [table |-> TRUE,  rows |-> << MkRow(1, p1), MkRow(2, p2), MkRow(3, p3) >>],
      [table |-> TRUE,  rows |-> << [MkRow(1, p1) EXCEPT !.meta = "corrupt"],
                                    [MkRow(2, p2) EXCEPT !.path = P_ab] >>] }

\* ------------------------------------------------------------------ SQL
\* SQLite's SUBSTR(s, y, z) for z >= 0: the characters of s at the
\* positions y .. y+z-1 that exist.
Substr(s, y, z) == SubSeq(s, Max2(y, 1), Min2(y + z - 1, Len(s)))

\* str.chars().count()
CharsCount(s) == Len(s)

\* Mutant of ExecInsert: uid and md5 bound to each other's placeholder.
ExecInsertSwapped(rs, photo) ==
    LET sw == [photo EXCEPT !.uid = photo.md5, !.md5 = photo.uid]
    IN IF UidConflict(rs, sw.uid)
       THEN [ok |-> FALSE, rows |-> rs]
       ELSE [ok |-> TRUE,  rows |-> Append(rs, MkRow(NewRowId(rs), sw))]

\* Mutant of ExecInsert: INSERT OR REPLACE.
ExecInsertOrReplace(rs, photo) ==
    LET kept == SelectSeq(rs, LAMBDA r : r.uid # photo.uid)
    IN [ok |-> TRUE, rows |-> Append(kept, MkRow(NewRowId(rs), photo))]

\* INSERT INTO photo(filename, path, uid, md5) VALUES(?, ?, ?, ?);
ExecInsert(rs, photo) ==
    IF UidConflict(rs, photo.uid)
    THEN [ok |-> FALSE, rows |-> rs]
    ELSE [ok |-> TRUE,  rows |-> Append(rs, MkRow(NewRowId(rs), photo))]

\* Mutant of ExecRemove: a DELETE that changes no row counts as a failure.
ExecRemoveStrict(rs, photo) ==
    [ok |-> UidConflict(rs, photo.uid), rows |-> SelectSeq(rs, LAMBDA r : r.uid # photo.uid)]

\* DELETE FROM photo WHERE uid=?;
ExecRemove(rs, photo) ==
    [ok |-> TRUE, rows |-> SelectSeq(rs, LAMBDA r : r.uid # photo.uid)]

\* Mutant of ExecMove: the WHERE placeholder is bound to pair.1.uid.
ExecMoveByNewUid(rs, pair) ==
    [ok |-> TRUE,
     rows |-> [k \in 1..Len(rs) |->
                 IF rs[k].uid = pair[2].uid
                 THEN [rs[k] EXCEPT !.filename = pair[2].filename, !.path = pair[2].path]
                 ELSE rs[k]]]

\* UPDATE photo SET filename=?, path=? WHERE uid=?;  bound to
\* (pair.1.filename, pair.1.path, pair.0.uid)
ExecMove(rs, pair) ==
    [ok |-> TRUE,
     rows |-> [k \in 1..Len(rs) |->
                 IF rs[k].uid = pair[1].uid
                 THEN [rs[k] EXCEPT !.filename = pair[2].filename, !.path = pair[2].path]
                 ELSE rs[k]]]

\* One element of a mutation's batch.
ExecElement(kind, rs, e) ==
    CASE kind = "insert_photos" -> ExecInsert(rs, e)
      [] kind = "remove_photos" -> ExecRemove(rs, e)
      [] kind = "move_photos"   -> ExecMove(rs, e)

Batch(o) ==
    CASE o.kind = "insert_photos" -> o.photos
      [] o.kind = "remove_photos" -> o.photos
      [] o.kind = "move_photos"   -> o.photos_pairs
      [] OTHER -> <<>>

\* ------------------------------------------------------------------ statements
OrderByHead == "SELECT * FROM photo WHERE path=? ORDER BY "
InHead      == "SELECT * FROM photo WHERE path IN ("

\* pieces.join(sep)
RECURSIVE Join(_, _)
Join(pieces, sep) ==
    IF pieces = <<>> THEN <<>>
    ELSE IF Len(pieces) = 1 THEN pieces[1]
    ELSE pieces[1] \o <<sep>> \o Join(Tail(pieces), sep)

\* Mutant of SortClause: the direction is ASC whatever reverse_sort_order says.
SortClauseAscending(clause, reverse_sort_order) == << clause, " ASC" >>

\* clause.push_str(" DESC") or clause.push_str(" ASC"), for each column.
SortClause(clause, reverse_sort_order) ==
    << clause, IF reverse_sort_order THEN " DESC" ELSE " ASC" >>

\* The text each operation hands to prepare.
BuildSql(o) ==
    CASE o.kind = "get_existing_uids" -> << "SELECT uid FROM photo;" >>
      [] o.kind = "get_paths_starting_with" ->
            << "SELECT path FROM photo WHERE SUBSTR(path, 1, ?)=? GROUP BY path;" >>
      [] o.kind = "get_photos_in_paths" ->
            <<InHead>> \o Join([k \in 1..Len(o.paths) |-> <<"?">>], ",") \o << ");" >>
      [] o.kind = "get_photos_in_path" ->
            <<OrderByHead>>
            \o Join([k \in 1..Len(o.sort_columns) |->
                       SortClause(o.sort_columns[k], o.reverse_sort_order)],
                    ", ")
            \o << ";" >>
      [] o.kind = "insert_photos" ->
            << "INSERT INTO photo(filename, path, uid, md5) VALUES(?, ?, ?, ?);" >>
      [] o.kind = "remove_photos" -> << "DELETE FROM photo WHERE uid=?;" >>
      [] o.kind = "move_photos" -> << "UPDATE photo SET filename=?, path=? WHERE uid=?;" >>

\* The ORDER BY terms SQLite reads from a statement: <<expression, direction>>
\* for each term between the head and the closing ";".
OrderByTerms(sql) ==
    LET body == SubSeq(sql, 2, Len(sql) - 1)
    IN [k \in 1..((Len(body) + 1) \div 3) |-> << body[3 * k - 2], body[3 * k - 1] >>]

OrderByColumns(sql) == { OrderByTerms(sql)[k][1] : k \in 1..Len(OrderByTerms(sql)) }

\* Expressions SQLite resolves against table photo: its columns, and the
\* one non-column expression the inputs carry.
Resolvable == PhotoFields \cup { "random()" }

\* Mutant of PrepareOk: an ORDER BY without terms compiles.
PrepareOkEmptyOrderBy(tbl, sql) ==
    /\ tbl
    /\ Head(sql) = OrderByHead => OrderByColumns(sql) \subseteq Resolvable

\* sqlite3_prepare: the statement compiles when the table exists and, for
\* the ORDER BY query, the term list is not empty and every term resolves.
\* An IN list without placeholders compiles.
PrepareOk(tbl, sql) ==
    /\ tbl
    /\ Head(sql) = OrderByHead =>
         /\ Len(OrderByTerms(sql)) > 0
         /\ OrderByColumns(sql) \subseteq Resolvable

\* ------------------------------------------------------------------ queries
FilenameOrder == << "f1", "f2", "f3", "f4" >>
UidOrder      == << "u1", "u2", "u3" >>
Md5Order      == << "m1", "m2", "m3", "m4" >>
PathOrder     == << P_ab, P_ab_c, P_abc >>

\* The value ORDER BY compares for column c of row r, as its rank.
SortKey(r, c) ==
    CASE c = "id"       -> r.id
      [] c = "filename" -> RankIn(FilenameOrder, r.filename)
      [] c = "path"     -> RankIn(PathOrder, r.path)
      [] c = "uid"      -> RankIn(UidOrder, r.uid)
      [] c = "md5"      -> RankIn(Md5Order, r.md5)
      [] OTHER          -> 0

\* ORDER BY terms puts r1 before r2 whatever the engine does with ties.
RECURSIVE MustPrecede(_, _, _)
MustPrecede(r1, r2, terms) ==
    IF terms = <<>> THEN FALSE
    ELSE LET c == Head(terms)[1]
             desc == Head(terms)[2] = " DESC"
         IN IF c \notin PhotoFields THEN FALSE
            ELSE IF SortKey(r1, c) = SortKey(r2, c) THEN MustPrecede(r1, r2, Tail(terms))
            ELSE IF desc THEN SortKey(r1, c) > SortKey(r2, c)
            ELSE SortKey(r1, c) < SortKey(r2, c)

\* row_to_photo: the Photo of a row, or the rusqlite error of the first
\* column that does not decode.
row_to_photo(r) ==
    IF r.meta = "corrupt" THEN [err |-> TRUE]
    ELSE [err |-> FALSE,
          photo |-> [id |-> r.id, filename |-> r.filename, path |-> r.path, uid |-> r.uid,
                     md5 |-> r.md5, meta |-> r.meta]]

\* SELECT uid FROM photo;  the rows come in an order SQL leaves open.
SelectUids(rs) == Perms([k \in 1..Len(rs) |-> rs[k].uid])

\* Mutant of SelectPathsStartingWith: SUBSTR(path, 0, ?).
SelectPathsFromZero(rs, path) ==
    LET hit == { r.path : r \in { x \in Range(rs) : Substr(x.path, 0, CharsCount(path)) = path } }
    IN { v \in [1..Cardinality(hit) -> hit] : NoDup(v) }

\* SELECT path FROM photo WHERE SUBSTR(path, 1, ?)=? GROUP BY path;
\* bound to (path.chars().count(), path).
SelectPathsStartingWith(rs, path) ==
    LET hit == { r.path : r \in { x \in Range(rs) : Substr(x.path, 1, CharsCount(path)) = path } }
    IN { v \in [1..Cardinality(hit) -> hit] : NoDup(v) }

\* Mutant of SelectPhotosInPaths: an empty list of paths drops the WHERE
\* clause, so every row matches.
SelectPhotosUnfilteredWhenEmpty(rs, paths) ==
    Perms(SelectSeq(rs, LAMBDA r : paths = <<>> \/ r.path \in Range(paths)))

\* SELECT * FROM photo WHERE path IN (?,...);  bound to paths.
SelectPhotosInPaths(rs, paths) ==
    Perms(SelectSeq(rs, LAMBDA r : r.path \in Range(paths)))

\* SELECT * FROM photo WHERE path=? ORDER BY <terms>;
SelectPhotosInPath(rs, path, sql) ==
    { v \in Perms(SelectSeq(rs, LAMBDA r : r.path = path)) :
        \A a, b \in 1..Len(v) : a < b => ~MustPrecede(v[b], v[a], OrderByTerms(sql)) }

\* The row sequences the statement of o can yield.
QueryRows(o, rs) ==
    CASE o.kind = "get_existing_uids"       -> SelectUids(rs)
      [] o.kind = "get_paths_starting_with" -> SelectPathsStartingWith(rs, o.path)
      [] o.kind = "get_photos_in_paths"     -> SelectPhotosInPaths(rs, o.paths)
      [] o.kind = "get_photos_in_path"      -> SelectPhotosInPath(rs, o.path, BuildSql(o))

\* Whether the closure given to query_map decodes every row of v.
DecodesAll(o, v) ==
    o.kind \in {"get_photos_in_paths", "get_photos_in_path"} =>
        \A k \in 1..Len(v) : ~row_to_photo(v[k]).err

\* The Vec the operation collects from rows v.
Collected(o, v) ==
    IF o.kind \in {"get_photos_in_paths", "get_photos_in_path"}
    THEN [k \in 1..Len(v) |-> row_to_photo(v[k]).photo]
    ELSE v

\* ------------------------------------------------------------------ state
VARIABLES
    proc,      \* "start" | "running" | a member of BootFailures once exited
    table,     \* whether table photo exists in the store
    rows,      \* the rows of table photo, by ascending id
    permits,   \* the permits of the Mutex's semaphore: 1 when the guard is free
    db_guard,  \* db_guard[t]: task t's MutexGuard is alive
    pc,        \* pc[t]: "idle" | "waiting" | "locked" | "stmt" | "done"
    op,        \* op[t]: the call task t is in
    i,         \* i[t]: the batch element the for loop is at (1-based)
    ret,       \* ret[t]: what the call returned
    snap,      \* the rows as they were when the guard was last acquired
    calls,     \* calls issued so far
    faults     \* storage faults injected so far

vars == << proc, table, rows, permits, db_guard, pc, op, i, ret, snap, calls, faults >>

NoRet == [kind |-> "none"]
Ok(v) == [kind |-> "Ok", val |-> v]
DatabaseError(where) == [kind |-> "DatabaseError", at |-> where]
Panicked == [kind |-> "panic"]
Unit == "()"

Init ==
    /\ proc = "start"
    /\ \E st \in StoreInputs : table = st.table /\ rows = st.rows
    /\ permits = 1
    /\ db_guard = [t \in Tasks |-> FALSE]
    /\ pc = [t \in Tasks |-> "idle"]
    /\ op = [t \in Tasks |-> NoOp]
    /\ i = [t \in Tasks |-> 0]
    /\ ret = [t \in Tasks |-> NoRet]
    /\ snap = <<>>
    /\ calls = 0
    /\ faults = 0

\* ------------------------------------------------------------------ bootstrap
\* The four ways open_or_exit ends in std::process::exit(-1).
BootFailures == { "open_failed", "check_failed", "schema_unreadable", "schema_failed" }

\* Mutant of OpenOrExit: schema.sql is applied without looking for the
\* table, so on a store that has it the batch fails and the process exits.
OpenOrExitAlwaysApplies ==
    /\ proc = "start"
    /\ \E outcome \in BootFailures \cup { "ok" } :
         CASE outcome \in BootFailures ->
                /\ proc' = outcome
                /\ UNCHANGED << table, rows >>
           [] outcome = "ok" ->
                /\ proc' = IF table THEN "schema_failed" ELSE "running"
                /\ table' = TRUE
                /\ UNCHANGED rows
    /\ UNCHANGED << permits, db_guard, pc, op, i, ret, snap, calls, faults >>

\* Mutant of OpenOrExit: a schema that cannot be read or applied is reported
\* and the connection is returned all the same.
OpenOrExitContinues ==
    /\ proc = "start"
    /\ \E outcome \in BootFailures \cup { "ok" } :
         CASE outcome \in { "open_failed", "check_failed" } ->
                /\ proc' = outcome
                /\ UNCHANGED << table, rows >>
           [] outcome \in { "schema_unreadable", "schema_failed" } ->
                /\ ~table
                /\ proc' = "running"
                /\ UNCHANGED << table, rows >>
           [] outcome = "ok" ->
                /\ proc' = "running"
                /\ table' = TRUE
                /\ UNCHANGED rows
    /\ UNCHANGED << permits, db_guard, pc, op, i, ret, snap, calls, faults >>

\* open_or_exit: open the store, look for table photo, apply schema.sql when
\* it is absent; any failure ends the process.  schema.sql is applied as one
\* atomic batch, so a failed application leaves no table behind.
OpenOrExit ==
    /\ proc = "start"
    /\ \E outcome \in BootFailures \cup { "ok" } :
         CASE outcome \in { "open_failed", "check_failed" } ->
                /\ proc' = outcome
                /\ UNCHANGED << table, rows >>
           [] outcome \in { "schema_unreadable", "schema_failed" } ->
                /\ ~table
                /\ proc' = outcome
                /\ UNCHANGED << table, rows >>
           [] outcome = "ok" ->
                /\ proc' = "running"
                /\ table' = TRUE
                /\ UNCHANGED rows
    /\ UNCHANGED << permits, db_guard, pc, op, i, ret, snap, calls, faults >>

\* ------------------------------------------------------------------ the guard
\* A caller enters one of the seven operations.
Call(t) ==
    /\ proc = "running"
    /\ pc[t] = "idle"
    /\ calls < MaxCalls
    /\ \E o \in OpInputs : op' = [op EXCEPT ![t] = o]
    /\ pc' = [pc EXCEPT ![t] = "waiting"]
    /\ calls' = calls + 1
    /\ UNCHANGED << proc, table, rows, permits, db_guard, i, ret, snap, faults >>

\* Mutant of Acquire: the lock is granted without looking at the permits.
AcquireNoPermit(t) ==
    /\ pc[t] = "waiting"
    /\ permits' = permits - 1
    /\ db_guard' = [db_guard EXCEPT ![t] = TRUE]
    /\ pc' = [pc EXCEPT ![t] = "locked"]
    /\ snap' = rows
    /\ UNCHANGED << proc, table, rows, op, i, ret, calls, faults >>

\* Mutant of Acquire: try_lock() with its failure ignored, so a caller that
\* finds the guard taken goes on without it.
AcquireTryLock(t) ==
    /\ pc[t] = "waiting"
    /\ permits' = IF permits > 0 THEN permits - 1 ELSE permits
    /\ db_guard' = [db_guard EXCEPT ![t] = permits > 0]
    /\ pc' = [pc EXCEPT ![t] = "locked"]
    /\ snap' = rows
    /\ UNCHANGED << proc, table, rows, op, i, ret, calls, faults >>

\* Mutant of Acquire: `let _ = db_conn.lock().await;` waits for the permit
\* and drops the guard at once, so the operation runs without it.
AcquireGuardDropped(t) ==
    /\ pc[t] = "waiting"
    /\ permits > 0
    /\ pc' = [pc EXCEPT ![t] = "locked"]
    /\ snap' = rows
    /\ UNCHANGED << proc, table, rows, permits, db_guard, op, i, ret, calls, faults >>

\* db_conn.lock().await completes: the semaphore has a permit.
Acquire(t) ==
    /\ pc[t] = "waiting"
    /\ permits > 0
    /\ permits' = permits - 1
    /\ db_guard' = [db_guard EXCEPT ![t] = TRUE]
    /\ pc' = [pc EXCEPT ![t] = "locked"]
    /\ snap' = rows
    /\ UNCHANGED << proc, table, rows, op, i, ret, calls, faults >>

\* Mutant of Return: an error exit keeps the guard.
ReturnLeakOnError(t, r) ==
    /\ pc' = [pc EXCEPT ![t] = "done"]
    /\ ret' = [ret EXCEPT ![t] = r]
    /\ db_guard' = [db_guard EXCEPT ![t] = (r.kind # "Ok")]
    /\ permits' = IF r.kind = "Ok" THEN permits + 1 ELSE permits
    /\ snap' = <<>>

\* The function returns r (or unwinds): stmt and db_guard go out of scope,
\* and dropping the guard gives the permit back.
Return(t, r) ==
    /\ pc' = [pc EXCEPT ![t] = "done"]
    /\ ret' = [ret EXCEPT ![t] = r]
    /\ db_guard' = [db_guard EXCEPT ![t] = FALSE]
    /\ permits' = permits + 1
    /\ snap' = <<>>

\* The caller takes the result.
Reset(t) ==
    /\ pc[t] = "done"
    /\ pc' = [pc EXCEPT ![t] = "idle"]
    /\ op' = [op EXCEPT ![t] = NoOp]
    /\ i' = [i EXCEPT ![t] = 0]
    /\ ret' = [ret EXCEPT ![t] = NoRet]
    /\ UNCHANGED << proc, table, rows, permits, db_guard, snap, calls, faults >>

\* ------------------------------------------------------------------ operations
\* The environment may fail a call into the store while faults remain.
Fault(f) ==
    /\ f => faults < MaxFaults
    /\ faults' = IF f THEN faults + 1 ELSE faults

\* db_guard.prepare(sql).map_err(DatabaseError)?
Prepare(t) ==
    /\ pc[t] = "locked"
    /\ \E f \in BOOLEAN :
         /\ Fault(f)
         /\ IF f \/ ~PrepareOk(table, BuildSql(op[t]))
            THEN /\ Return(t, DatabaseError("prepare"))
                 /\ UNCHANGED i
            ELSE /\ pc' = [pc EXCEPT ![t] = "stmt"]
                 /\ i' = [i EXCEPT ![t] = 1]
                 /\ UNCHANGED << ret, db_guard, permits, snap >>
    /\ UNCHANGED << proc, table, rows, op, calls >>

\* Mutant of Execute: a failed element rolls the batch back.
ExecuteRollback(t) ==
    /\ pc[t] = "stmt"
    /\ op[t].kind \in Mutations
    /\ i[t] <= Len(Batch(op[t]))
    /\ \E f \in BOOLEAN :
         /\ Fault(f)
         /\ LET r == ExecElement(op[t].kind, rows, Batch(op[t])[i[t]])
            IN IF f \/ ~r.ok
               THEN /\ Return(t, DatabaseError("execute"))
                    /\ rows' = snap
                    /\ UNCHANGED i
               ELSE /\ rows' = r.rows
                    /\ i' = [i EXCEPT ![t] = i[t] + 1]
                    /\ UNCHANGED << pc, ret, db_guard, permits, snap >>
    /\ UNCHANGED << proc, table, op, calls >>

\* One turn of the for loop of a mutation: stmt.execute(params)?
Execute(t) ==
    /\ pc[t] = "stmt"
    /\ op[t].kind \in Mutations
    /\ i[t] <= Len(Batch(op[t]))
    /\ \E f \in BOOLEAN :
         /\ Fault(f)
         /\ LET r == ExecElement(op[t].kind, rows, Batch(op[t])[i[t]])
            IN IF f \/ ~r.ok
               THEN /\ Return(t, DatabaseError("execute"))
                    /\ UNCHANGED << rows, i >>
               ELSE /\ rows' = r.rows
                    /\ i' = [i EXCEPT ![t] = i[t] + 1]
                    /\ UNCHANGED << pc, ret, db_guard, permits, snap >>
    /\ UNCHANGED << proc, table, op, calls >>

\* stmt.finalize().map_err(DatabaseError): every execute succeeded, so
\* sqlite3_finalize reports no error.
Finalize(t) ==
    /\ pc[t] = "stmt"
    /\ op[t].kind \in Mutations
    /\ i[t] > Len(Batch(op[t]))
    /\ Return(t, Ok(Unit))
    /\ UNCHANGED << proc, table, rows, op, i, calls, faults >>

\* stmt.query_map(params, f)?.map(|x| x.unwrap()).collect(): a row that
\* fails to step or to decode is an Err item, and unwrap panics on it.
Query(t) ==
    /\ pc[t] = "stmt"
    /\ op[t].kind \in Queries
    /\ \E f \in BOOLEAN, v \in QueryRows(op[t], rows) :
         /\ Fault(f)
         /\ IF f \/ ~DecodesAll(op[t], v)
            THEN Return(t, Panicked)
            ELSE Return(t, Ok(Collected(op[t], v)))
    /\ UNCHANGED << proc, table, rows, op, i, calls >>

Next ==
    \/ OpenOrExit
    \/ \E t \in Tasks : Call(t)
    \/ \E t \in Tasks : Acquire(t)
    \/ \E t \in Tasks : Prepare(t)
    \/ \E t \in Tasks : Execute(t)
    \/ \E t \in Tasks : Finalize(t)
    \/ \E t \in Tasks : Query(t)
    \/ \E t \in Tasks : Reset(t)

Spec == Init /\ [][Next]_vars

\* ------------------------------------------------------------------ scenario
\* N callers each insert one Photo of its own uid into an empty catalog,
\* concurrently, on a store that raises no fault; when all have returned, an
\* observer lists the uids.
Inserters == {"w1", "w2", "w3"}
Observer == "r"
PhotoOf(w) == CASE w = "w1" -> p1 [] w = "w2" -> p2 [] w = "w3" -> p3

InitInserters ==
    /\ proc = "running"
    /\ table = TRUE
    /\ rows = <<>>
    /\ permits = 1
    /\ db_guard = [t \in Inserters \cup {Observer} |-> FALSE]
    /\ pc = [t \in Inserters \cup {Observer} |-> "idle"]
    /\ op = [t \in Inserters \cup {Observer} |-> NoOp]
    /\ i = [t \in Inserters \cup {Observer} |-> 0]
    /\ ret = [t \in Inserters \cup {Observer} |-> NoRet]
    /\ snap = <<>>
    /\ calls = 0
    /\ faults = MaxFaults

CallInsertOne(t) ==
    /\ pc[t] = "idle"
    /\ op' = [op EXCEPT ![t] = [kind |-> "insert_photos", photos |-> << PhotoOf(t) >>]]
    /\ pc' = [pc EXCEPT ![t] = "waiting"]
    /\ calls' = calls + 1
    /\ UNCHANGED << proc, table, rows, permits, db_guard, i, ret, snap, faults >>

CallListUids ==
    /\ pc[Observer] = "idle"
    /\ \A w \in Inserters : pc[w] = "done"
    /\ op' = [op EXCEPT ![Observer] = [kind |-> "get_existing_uids"]]
    /\ pc' = [pc EXCEPT ![Observer] = "waiting"]
    /\ calls' = calls + 1
    /\ UNCHANGED << proc, table, rows, permits, db_guard, i, ret, snap, faults >>

NextInserters ==
    \/ \E t \in Inserters : CallInsertOne(t)
    \/ CallListUids
    \/ \E t \in Inserters \cup {Observer} : Acquire(t)
    \/ \E t \in Inserters \cup {Observer} : Prepare(t)
    \/ \E t \in Inserters : Execute(t)
    \/ \E t \in Inserters : Finalize(t)
    \/ Query(Observer)

SpecInserters == InitInserters /\ [][NextInserters]_vars

\* ------------------------------------------------------------------ claims
Holders == { t \in Tasks : db_guard[t] }

\* Task t takes a step of its own.
Steps(t) == pc'[t] # pc[t] \/ i'[t] # i[t]

\* C1: at most one operation holds the connection guard; an operation that
\* is at the connection (statement being prepared, executed or queried) holds
\* it; every other caller inside an operation is suspended at lock().await.
C1_MutualExclusion ==
    /\ Cardinality(Holders) <= 1
    /\ permits = 1 - Cardinality(Holders)
    /\ \A t \in Tasks : pc[t] \in {"locked", "stmt"} => db_guard[t]
    /\ \A t \in Tasks : (op[t] # NoOp /\ pc[t] # "done" /\ ~db_guard[t]) => pc[t] = "waiting"

\* One task is executing its statement while the other waits for the guard.
C1_Witness ==
    \E t, u \in Tasks :
        /\ t # u
        /\ pc[t] = "stmt" /\ db_guard[t]
        /\ pc[u] = "waiting" /\ ~db_guard[u]

\* C2: an operation that has ended, however it ended, holds no guard; when
\* nobody holds the guard the permit is back and a waiting caller can take it.
C2_GuardReleased ==
    /\ \A t \in Tasks : pc[t] \in {"idle", "waiting", "done"} => ~db_guard[t]
    /\ \A t \in Tasks : pc[t] = "done" => ret[t].kind \in {"Ok", "DatabaseError", "panic"}
    /\ Holders = {} => permits = 1
    /\ \A t \in Tasks : (Holders = {} /\ pc[t] = "waiting") => ENABLED Acquire(t)

\* A holder failed in the middle of its batch, and the other caller has
\* acquired the guard after it.
C2_Witness ==
    \E t, u \in Tasks :
        /\ pc[t] = "done" /\ ret[t] = DatabaseError("execute") /\ i[t] >= 2
        /\ db_guard[u] /\ pc[u] = "stmt"

\* C3: no two records of the catalog have the same uid, in every state
\* reached by any interleaving of insert_photos, remove_photos and
\* move_photos, failed batches included.
C3_UidUnique ==
    \A a, b \in 1..Len(rows) : rows[a].uid = rows[b].uid => a = b

\* An insert_photos batch failed at its second element, after committing its
\* first, next to other records.
C3_Witness ==
    \E t \in Tasks :
        /\ op[t].kind = "insert_photos"
        /\ pc[t] = "done" /\ ret[t] = DatabaseError("execute") /\ i[t] = 2
        /\ Len(rows) >= 2

\* C4: when insert_photos executes the INSERT for a Photo whose uid is in the
\* catalog, the call returns a DatabaseError and the catalog, the stored
\* record with it, is unchanged.
C4_DuplicateUidRejected ==
    [][ \A t \in Tasks :
          ( /\ pc[t] = "stmt"
            /\ op[t].kind = "insert_photos"
            /\ i[t] <= Len(op[t].photos)
            /\ Steps(t)
            /\ \E k \in 1..Len(rows) : rows[k].uid = op[t].photos[i[t]].uid )
          => ( /\ pc'[t] = "done"
               /\ ret'[t].kind = "DatabaseError"
               /\ rows' = rows ) ]_vars

\* insert_photos returned an error, without a storage fault, at a Photo
\* whose uid is stored with another filename, path and md5.
C4_Witness ==
    \E t \in Tasks :
        /\ op[t].kind = "insert_photos"
        /\ pc[t] = "done" /\ ret[t] = DatabaseError("execute") /\ faults = 0
        /\ \E k \in 1..Len(rows) :
             /\ rows[k].uid = op[t].photos[i[t]].uid
             /\ rows[k].filename # op[t].photos[i[t]].filename
             /\ rows[k].path # op[t].photos[i[t]].path
             /\ rows[k].md5 # op[t].photos[i[t]].md5

\* C5: N concurrent insert_photos calls, one Photo of a distinct absent uid
\* each, all return Ok under every interleaving, and the get_existing_uids
\* that follows returns exactly those N uids, each once.
C5_NoLostUpdates ==
    /\ \A w \in Inserters : pc[w] = "done" => ret[w].kind = "Ok"
    /\ pc[Observer] = "done" =>
         /\ ret[Observer].kind = "Ok"
         /\ Len(ret[Observer].val) = Cardinality(Inserters)
         /\ NoDup(ret[Observer].val)
         /\ Range(ret[Observer].val) = { PhotoOf(w).uid : w \in Inserters }

\* The observer has its list, after the inserters contended for the guard
\* and the last to call was not the last to be served.
C5_Witness ==
    /\ pc[Observer] = "done"
    /\ ret[Observer].kind = "Ok"
    /\ Len(ret[Observer].val) = Cardinality(Inserters)
    /\ rows[1].uid = PhotoOf("w3").uid

\* The rows after the first n elements of batch are applied to rs in order.
RECURSIVE ApplyPrefix(_, _, _, _)
ApplyPrefix(kind, rs, batch, n) ==
    IF n = 0 THEN rs
    ELSE ExecElement(kind, ApplyPrefix(kind, rs, batch, n - 1), batch[n]).rows

\* The uid an element of a batch is keyed by.
KeyUid(kind, e) == IF kind = "move_photos" THEN e[1].uid ELSE e.uid

\* Task t returns from its statement with result kind k in this step.
Returns(t, k) == pc[t] = "stmt" /\ pc'[t] = "done" /\ ret'[t].kind = k

\* C6: when element k of the batch of insert_photos, remove_photos or
\* move_photos fails, the call returns an error and the catalog is the one
\* the guard was acquired on with elements 1..k-1 applied: nothing is rolled
\* back.
C6_PartialBatchCommitted ==
    [][ \A t \in Tasks :
          ( /\ pc[t] = "stmt"
            /\ op[t].kind \in Mutations
            /\ i[t] <= Len(Batch(op[t]))
            /\ Steps(t)
            /\ pc'[t] = "done" )
          => ( /\ ret'[t].kind = "DatabaseError"
               /\ rows' = rows
               /\ rows' = ApplyPrefix(op[t].kind, snap, Batch(op[t]), i[t] - 1) ) ]_vars

\* insert_photos failed at its second element, with no storage fault, and
\* the record of its first element, which was not there when the guard was
\* acquired, is in the catalog.
C6_Witness ==
    \E t \in Tasks :
        /\ op[t].kind = "insert_photos"
        /\ pc[t] = "done" /\ ret[t] = DatabaseError("execute") /\ i[t] = 2 /\ faults = 0
        /\ \E k \in 1..Len(rows) :
             /\ rows[k].uid = op[t].photos[1].uid
             /\ rows[k].filename = op[t].photos[1].filename
             /\ rows[k].md5 = op[t].photos[1].md5

\* C7: remove_photos or move_photos executed for a uid that is not in the
\* catalog leaves the catalog exactly as it is and, the store not failing,
\* goes on to the next element (the call returns Ok); applying a
\* remove_photos batch twice gives the catalog that applying it once gives.
C7_IdempotentRemoveMove ==
    /\ [][ \A t \in Tasks :
             ( /\ pc[t] = "stmt"
               /\ op[t].kind \in {"remove_photos", "move_photos"}
               /\ i[t] <= Len(Batch(op[t]))
               /\ Steps(t)
               /\ ~\E k \in 1..Len(rows) : rows[k].uid = KeyUid(op[t].kind, Batch(op[t])[i[t]]) )
             => ( /\ rows' = rows
                  /\ faults' = faults => (pc'[t] = "stmt" /\ i'[t] = i[t] + 1) ) ]_vars
    /\ [][ \A t \in Tasks :
             ( /\ pc[t] = "stmt"
               /\ op[t].kind \in {"remove_photos", "move_photos"}
               /\ i[t] > Len(Batch(op[t]))
               /\ Steps(t) )
             => ret'[t].kind = "Ok" ]_vars
    /\ [](\A b \in RemoveInputs :
            ApplyPrefix("remove_photos", ApplyPrefix("remove_photos", rows, b, Len(b)), b, Len(b))
              = ApplyPrefix("remove_photos", rows, b, Len(b)))

\* A remove_photos or move_photos call has gone through its whole batch,
\* none of whose uids was in the catalog it acquired, next to records of
\* other uids.
C7_Witness ==
    \E t \in Tasks :
        /\ op[t].kind \in {"remove_photos", "move_photos"}
        /\ pc[t] = "stmt" /\ i[t] = Len(Batch(op[t])) + 1 /\ i[t] > 1
        /\ snap # <<>>
        /\ rows = snap
        /\ \A n \in 1..Len(Batch(op[t])) :
             ~\E k \in 1..Len(snap) : snap[k].uid = KeyUid(op[t].kind, Batch(op[t])[n])

\* p is a prefix of s, character by character.
IsCharPrefix(p, s) == Len(p) <= Len(s) /\ \A k \in 1..Len(p) : s[k] = p[k]

\* C8: get_paths_starting_with(prefix) returns each path of the catalog whose
\* first len(prefix) characters are prefix, once, and nothing else.
C8_PathsByCharPrefix ==
    [][ \A t \in Tasks :
          ( op[t].kind = "get_paths_starting_with" /\ Returns(t, "Ok") )
          => ( /\ NoDup(ret'[t].val)
               /\ Range(ret'[t].val)
                    = { rows[k].path : k \in { n \in 1..Len(rows) : IsCharPrefix(op[t].path, rows[n].path) } } ) ]_vars

\* The only call so far searched /a/b in a catalog where two records share
\* that path, and returned it once.
C8_Witness ==
    \E t \in Tasks :
        /\ calls = 1
        /\ op[t] = [kind |-> "get_paths_starting_with", path |-> P_ab]
        /\ pc[t] = "done" /\ ret[t].kind = "Ok"
        /\ ret[t].val = << P_ab >>
        /\ Cardinality({ k \in 1..Len(rows) : rows[k].path = P_ab }) = 2

ExamplePaths == { P_ab, P_abc, P_ab_c }

\* C9 as claimed: with records at /a/b, /a/bc and /a/b/c, the search for
\* /a/b returns exactly {/a/b, /a/b/c}: only the path itself and the paths
\* that continue it with the separator.
C9_Original ==
    [][ \A t \in Tasks :
          ( /\ op[t] = [kind |-> "get_paths_starting_with", path |-> P_ab]
            /\ Returns(t, "Ok")
            /\ { rows[k].path : k \in 1..Len(rows) } = ExamplePaths )
          => Range(ret'[t].val) = { P_ab, P_ab_c } ]_vars

\* C10 as claimed: a statement of get_photos_in_path that the store has
\* compiled orders by columns of the allow-list (the Photo fields) only.
C10_SortColumnsAllowListed ==
    \A t \in Tasks :
        (pc[t] = "stmt" /\ op[t].kind = "get_photos_in_path")
        => OrderByColumns(BuildSql(op[t])) \subseteq PhotoFields

PhotoQueries == { "get_photos_in_paths", "get_photos_in_path" }

\* C11 as claimed: when a row matched by get_photos_in_paths or
\* get_photos_in_path cannot be decoded into a Photo, the call comes back to
\* its caller with a DatabaseError; here the store itself raises no fault, so
\* an undecodable row is the only thing that can go wrong after prepare.
C11_DecodeErrorReturned ==
    \A t \in Tasks :
        (pc[t] = "done" /\ op[t].kind \in PhotoQueries /\ faults = 0)
        => ret[t].kind \in { "Ok", "DatabaseError" }

EmptyPathsCall == [kind |-> "get_photos_in_paths", paths |-> <<>>]

\* C12 as claimed: get_photos_in_paths([]) never hands the store a statement
\* whose IN list has no placeholder.
C12_NoZeroPlaceholderQuery ==
    \A t \in Tasks :
        (pc[t] = "stmt" /\ op[t].kind = "get_photos_in_paths")
        => "?" \in Range(BuildSql(op[t]))

\* C12, amended: get_photos_in_paths([]) prepares the statement whose IN
\* list is empty, which the store compiles, and unless the store fails it
\* returns Ok with an empty Vec and leaves the catalog as it was, whatever
\* the catalog holds.
C12_EmptyPathsEmptyResult ==
    [][ \A t \in Tasks :
          (op[t] = EmptyPathsCall /\ Steps(t) /\ faults' = faults)
          => /\ pc[t] = "locked" =>
                  (pc'[t] = "stmt" /\ BuildSql(op[t]) = << InHead, ");" >>)
             /\ pc[t] = "stmt" =>
                  (pc'[t] = "done" /\ ret'[t].kind = "Ok" /\ ret'[t].val = <<>>)
             /\ rows' = rows ]_vars

\* The only call so far passed no path to a catalog of three records and
\* came back with Ok and no record.
C12_Witness ==
    \E t \in Tasks :
        /\ calls = 1 /\ faults = 0
        /\ op[t] = EmptyPathsCall
        /\ pc[t] = "done" /\ ret[t].kind = "Ok" /\ ret[t].val = <<>>
        /\ Len(rows) = 3

\* r1 sorts strictly before r2 under columns cols, all ascending or all
\* descending: the first column on which they differ decides.
SortsBefore(r1, r2, cols, reverse) ==
    \E k \in 1..Len(cols) :
        /\ \A j \in 1..(k - 1) : SortKey(r1, cols[j]) = SortKey(r2, cols[j])
        /\ IF reverse THEN SortKey(r1, cols[k]) > SortKey(r2, cols[k])
                      ELSE SortKey(r1, cols[k]) < SortKey(r2, cols[k])

Reverse(v) == [k \in 1..Len(v) |-> v[Len(v) + 1 - k]]

FilenameSql(reverse) ==
    BuildSql([kind |-> "get_photos_in_path", path |-> <<>>,
              sort_columns |-> << "filename" >>, reverse_sort_order |-> reverse])

\* C13: a get_photos_in_path call that returns records returns exactly the
\* records whose path is the given path, each once; when the sort columns
\* are Photo fields, no record comes after one it sorts strictly before, all
\* columns ascending when reverse_sort_order is false and all descending when
\* it is true.  And for a path whose records have distinct filenames, the
\* result sorted by filename descending is the ascending one reversed.
C13_PathRecordsSorted ==
    /\ [][ \A t \in Tasks :
             ( op[t].kind = "get_photos_in_path" /\ Returns(t, "Ok") )
             => LET v == ret'[t].val
                    hit == { k \in 1..Len(rows) : rows[k].path = op[t].path }
                IN /\ Len(v) = Cardinality(hit)
                   /\ { x.id : x \in Range(v) } = { rows[k].id : k \in hit }
                   /\ \A x \in Range(v) : \E k \in hit : x = row_to_photo(rows[k]).photo
                   /\ Range(op[t].sort_columns) \subseteq PhotoFields
                        => \A a, b \in 1..Len(v) :
                             a < b => ~SortsBefore(v[b], v[a], op[t].sort_columns,
                                                   op[t].reverse_sort_order) ]_vars
    /\ [] \A path \in PathInputs :
            LET hit == SelectSeq(rows, LAMBDA r : r.path = path)
            IN NoDup([k \in 1..Len(hit) |-> hit[k].filename])
               => SelectPhotosInPath(rows, path, FilenameSql(TRUE))
                    = { Reverse(v) : v \in SelectPhotosInPath(rows, path, FilenameSql(FALSE)) }

\* After a move brought a second record into /a/b, the listing of /a/b by
\* filename, descending, returned f4 before f1.
C13_Witness ==
    \E t \in Tasks :
        /\ op[t] = [kind |-> "get_photos_in_path", path |-> P_ab,
                    sort_columns |-> << "filename" >>, reverse_sort_order |-> TRUE]
        /\ pc[t] = "done" /\ ret[t].kind = "Ok"
        /\ Len(ret[t].val) = 2
        /\ ret[t].val[1].filename = "f4" /\ ret[t].val[2].filename = "f1"

\* The listing of path p.path holds a record equal to p on the four inserted
\* fields, with the schema's default in the others.
ReadsBack(v, p) ==
    \E k \in 1..Len(v) :
        /\ v[k].filename = p.filename /\ v[k].path = p.path
        /\ v[k].uid = p.uid /\ v[k].md5 = p.md5
        /\ v[k].meta = SchemaDefault

\* C14: once insert_photos has stored a Photo p, every listing of p.path that
\* get_photos_in_path can return from that catalog holds a record equal to p
\* on filename, path, uid and md5 whose other fields are the defaults,
\* whatever p carried in them.
C14_RoundTrip ==
    [][ \A t \in Tasks :
          ( /\ op[t].kind = "insert_photos" /\ pc[t] = "stmt"
            /\ i'[t] = i[t] + 1 )
          => LET p == op[t].photos[i[t]]
                 q == [kind |-> "get_photos_in_path", path |-> p.path,
                       sort_columns |-> << "filename" >>, reverse_sort_order |-> FALSE]
             IN \A v \in QueryRows(q, rows') :
                  DecodesAll(q, v) => ReadsBack(Collected(q, v), p) ]_vars

\* One caller inserted p4, whose metadata is not the default, and got Ok;
\* another then listed /a/b and got p4's four fields with default metadata.
C14_Witness ==
    \E t, u \in Tasks :
        /\ op[u] = [kind |-> "insert_photos", photos |-> << p4 >>]
        /\ pc[u] = "done" /\ ret[u].kind = "Ok"
        /\ op[t].kind = "get_photos_in_path" /\ op[t].path = p4.path
        /\ pc[t] = "done" /\ ret[t].kind = "Ok"
        /\ p4.meta # SchemaDefault
        /\ ReadsBack(ret[t].val, p4)

\* ------------------------------------------------------------------ restarts
\* The process ends, by its own exit or from outside, and is started again on
\* the same store file: its tasks are gone, the store is as they left it.
Restart ==
    /\ proc # "start"
    /\ proc' = "start"
    /\ permits' = 1
    /\ db_guard' = [t \in Tasks |-> FALSE]
    /\ pc' = [t \in Tasks |-> "idle"]
    /\ op' = [t \in Tasks |-> NoOp]
    /\ i' = [t \in Tasks |-> 0]
    /\ ret' = [t \in Tasks |-> NoRet]
    /\ snap' = <<>>
    /\ UNCHANGED << table, rows, calls, faults >>

\* A task of the running process inserts a batch; each task serves one call
\* per run of the process.
CallInsert(t) ==
    /\ proc = "running"
    /\ pc[t] = "idle"
    /\ calls < MaxCalls
    /\ \E b \in InsertInputs : op' = [op EXCEPT ![t] = [kind |-> "insert_photos", photos |-> b]]
    /\ pc' = [pc EXCEPT ![t] = "waiting"]
    /\ calls' = calls + 1
    /\ UNCHANGED << proc, table, rows, permits, db_guard, i, ret, snap, faults >>

NextBoot ==
    \/ OpenOrExit
    \/ Restart
    \/ \E t \in Tasks : CallInsert(t)
    \/ \E t \in Tasks : Acquire(t)
    \/ \E t \in Tasks : Prepare(t)
    \/ \E t \in Tasks : Execute(t)
    \/ \E t \in Tasks : Finalize(t)

SpecBoot == Init /\ [][NextBoot]_vars

\* C15: open_or_exit applies the schema only when table photo is absent, and
\* then leaves a table and no record; run on a store that has the table it
\* never ends on the schema, and it leaves the table and every record as they
\* were.  A process that runs has the table, so each later bootstrap of the
\* same store is of the second kind.
C15_BootstrapIdempotent ==
    /\ [][ (proc = "start" /\ proc' # "start")
           => /\ rows' = rows
              /\ table => (table' /\ proc' \in { "running", "open_failed", "check_failed" })
              /\ (~table /\ proc' = "running") => table' ]_vars
    /\ [](proc = "running" => table)

\* A record inserted during an earlier run of the process is in the catalog
\* of a process that was started again and has passed open_or_exit.
C15_Witness ==
    /\ proc = "running"
    /\ \A t \in Tasks : pc[t] = "idle"
    /\ \E k \in 1..Len(rows) : rows[k].md5 = p4.md5

\* C16: after any of the four failures the process has exited and no task
\* ever holds the connection or runs an operation; an operation only runs in
\* a process that open_or_exit has returned to, on a store with the table.
C16_BootstrapFailureFatal ==
    /\ proc \in BootFailures =>
          \A t \in Tasks : pc[t] = "idle" /\ ~db_guard[t] /\ op[t] = NoOp
    /\ \A t \in Tasks : pc[t] # "idle" => (proc = "running" /\ table)

\* schema.sql could not be applied: the process has exited, and no task
\* has made a call or holds the connection.
C16_Witness ==
    /\ proc = "schema_failed"
    /\ calls = 0
    /\ \A t \in Tasks : pc[t] = "idle" /\ ~db_guard[t]

\* Operation o, run alone on catalog rs, can end with result r and catalog
\* after: a mutation applies its elements in order and stops at the first
\* that fails, a query leaves the catalog alone and answers from rs.
SerialOutcome(o, rs, r, after) ==
    IF o.kind \in Mutations
    THEN LET b == Batch(o)
         IN CASE r.kind = "Ok" ->
                   /\ after = ApplyPrefix(o.kind, rs, b, Len(b))
                   /\ \A n \in 1..Len(b) :
                        ExecElement(o.kind, ApplyPrefix(o.kind, rs, b, n - 1), b[n]).ok
              [] r.kind = "DatabaseError" ->
                   \E n \in 0..Len(b) : after = ApplyPrefix(o.kind, rs, b, n)
              [] OTHER -> FALSE
    ELSE /\ after = rs
         /\ r.kind = "Ok" =>
              \E v \in QueryRows(o, rs) : DecodesAll(o, v) /\ r.val = Collected(o, v)

\* C17: the guard is acquired only when no operation holds it; while an
\* operation holds it the catalog changes only by that operation's own
\* statements, and while none holds it the catalog does not change; so each
\* operation returns the result, and leaves the catalog, that it would when
\* run alone on the catalog its predecessor in acquisition order left.
C17_Serializable ==
    [][ /\ \A t \in Tasks :
             (pc[t] = "waiting" /\ pc'[t] = "locked") => Holders = {}
        /\ \A t \in Tasks :
             (db_guard[t] /\ ~Steps(t)) => rows' = rows
        /\ Holders = {} => rows' = rows
        /\ \A t \in Tasks :
             (pc[t] \in { "locked", "stmt" } /\ pc'[t] = "done")
             => SerialOutcome(op[t], snap, ret'[t], rows') ]_vars

\* insert_photos([p2, p3]) has returned Ok; remove_photos([p3, p1]), which
\* acquired the guard on the two records it left, has removed the first.
C17_Witness ==
    \E t, u \in Tasks :
        /\ op[t] = [kind |-> "insert_photos", photos |-> << p2, p3 >>]
        /\ pc[t] = "done" /\ ret[t].kind = "Ok"
        /\ op[u] = [kind |-> "remove_photos", photos |-> << p3, p1 >>]
        /\ pc[u] = "stmt" /\ i[u] = 2
        /\ Len(snap) = 2 /\ Len(rows) = 1

\* C18: the step of move_photos for a pair (old, new) keeps the number of
\* records, and of each record the id, uid, md5 and metadata; the record with
\* uid old.uid gets new.filename and new.path, every other record is as it
\* was.
C18_MoveFrame ==
    [][ \A t \in Tasks :
          ( /\ op[t].kind = "move_photos" /\ pc[t] = "stmt"
            /\ i'[t] = i[t] + 1 )
          => LET old == op[t].photos_pairs[i[t]][1]
                 new == op[t].photos_pairs[i[t]][2]
             IN /\ Len(rows') = Len(rows)
                /\ \A k \in 1..Len(rows) :
                     /\ rows'[k].id = rows[k].id /\ rows'[k].uid = rows[k].uid
                     /\ rows'[k].md5 = rows[k].md5 /\ rows'[k].meta = rows[k].meta
                     /\ IF rows[k].uid = old.uid
                        THEN rows'[k].filename = new.filename /\ rows'[k].path = new.path
                        ELSE rows'[k] = rows[k] ]_vars

\* move_photos([(p3, p4)]) has run its statement: the record of uid u3 has
\* p4's filename and path and still its own uid and md5, although p4 carries
\* others, and the other two records are as they were.
C18_Witness ==
    \E t \in Tasks :
        /\ op[t] = [kind |-> "move_photos", photos_pairs |-> << << p3, p4 >> >>]
        /\ pc[t] = "stmt" /\ i[t] = 2
        /\ Len(snap) = 3 /\ Len(rows) = 3
        /\ rows[1] = snap[1] /\ rows[2] = snap[2]
        /\ rows[3] = [snap[3] EXCEPT !.filename = p4.filename, !.path = p4.path]
        /\ snap[3].uid = p3.uid /\ snap[3].filename # p4.filename
        /\ p4.uid # p3.uid /\ p4.md5 # p3.md5

\* ------------------------------------------------------------------ observers
\* Two writers each run one batch of two elements, an insert or a remove,
\* while an observer lists the uids once, at any moment; the store may fail.
Writers == { "w1", "w2" }
IsolationTasks == Writers \cup { Observer }

IsolationBatches ==
    { [kind |-> "insert_photos", photos |-> << p2, p3 >>],
      [kind |-> "remove_photos", photos |-> << p3, p1 >>] }

InitIsolation ==
    /\ proc = "running"
    /\ table = TRUE
    /\ rows \in { st.rows : st \in { x \in StoreInputs : x.table } }
    /\ permits = 1
    /\ db_guard = [t \in IsolationTasks |-> FALSE]
    /\ pc = [t \in IsolationTasks |-> "idle"]
    /\ op = [t \in IsolationTasks |-> NoOp]
    /\ i = [t \in IsolationTasks |-> 0]
    /\ ret = [t \in IsolationTasks |-> NoRet]
    /\ snap = <<>>
    /\ calls = 0
    /\ faults = 0

CallBatch(t) ==
    /\ pc[t] = "idle"
    /\ \E o \in IsolationBatches : op' = [op EXCEPT ![t] = o]
    /\ pc' = [pc EXCEPT ![t] = "waiting"]
    /\ calls' = calls + 1
    /\ UNCHANGED << proc, table, rows, permits, db_guard, i, ret, snap, faults >>

CallObserve ==
    /\ pc[Observer] = "idle"
    /\ op' = [op EXCEPT ![Observer] = [kind |-> "get_existing_uids"]]
    /\ pc' = [pc EXCEPT ![Observer] = "waiting"]
    /\ calls' = calls + 1
    /\ UNCHANGED << proc, table, rows, permits, db_guard, i, ret, snap, faults >>

NextIsolation ==
    \/ \E t \in Writers : CallBatch(t)
    \/ CallObserve
    \/ \E t \in IsolationTasks : Acquire(t)
    \/ \E t \in IsolationTasks : Prepare(t)
    \/ \E t \in IsolationTasks : Execute(t)
    \/ \E t \in IsolationTasks : Finalize(t)
    \/ \E t \in IsolationTasks : Query(t)

SpecIsolation == InitIsolation /\ [][NextIsolation]_vars

BatchUids(o) == { Batch(o)[k].uid : k \in 1..Len(Batch(o)) }

\* C19 as claimed: the uids a get_existing_uids call returned include all or
\* none of the uids of every batch that completed successfully.
C19_AllOrNoneOfBatch ==
    \A w \in Writers :
        ( /\ pc[w] = "done" /\ ret[w].kind = "Ok"
          /\ pc[Observer] = "done" /\ ret[Observer].kind = "Ok" )
        => Range(ret[Observer].val) \cap BatchUids(op[w]) \in { {}, BatchUids(op[w]) }

\* C19, amended: get_existing_uids never returns while a batch is between
\* its prepare and its return, and what it returns are the uids of the
\* catalog as the previous holder of the guard left it.  So its result holds
\* all or none of the uids of a successful insert_photos batch when no other
\* mutation ran; of a remove_photos batch it holds none, or those that were
\* in the catalog before the batch, which need not be all of them.
C19_NoMidBatchRead ==
    /\ [][ Returns(Observer, "Ok")
           => /\ \A w \in Writers : pc[w] \in { "idle", "waiting", "done" }
              /\ rows = snap
              /\ Range(ret'[Observer].val) = { rows[k].uid : k \in 1..Len(rows) } ]_vars
    /\ [] \A w \in Writers :
            ( /\ pc[w] = "done" /\ ret[w].kind = "Ok" /\ op[w].kind = "insert_photos"
              /\ \A x \in Writers \ {w} : pc[x] = "idle"
              /\ pc[Observer] = "done" /\ ret[Observer].kind = "Ok" )
            => Range(ret[Observer].val) \cap BatchUids(op[w]) \in { {}, BatchUids(op[w]) }

\* The observer listed an empty catalog and one writer's insert of p2 and
\* p3 then succeeded, while the other writer was still waiting for the guard.
C19_Witness ==
    \E w \in Writers :
        /\ op[w].kind = "insert_photos"
        /\ pc[w] = "done" /\ ret[w].kind = "Ok"
        /\ \E x \in Writers : pc[x] = "waiting"
        /\ pc[Observer] = "done" /\ ret[Observer].kind = "Ok"
        /\ ret[Observer].val = <<>>
        /\ Len(rows) = 2

\* C20: get_photos_in_path with no sort column builds the statement whose
\* ORDER BY has no term; prepare refuses it, so the call returns
\* DatabaseError without reading a record, with the catalog as it was and
\* the guard given back.
C20_EmptySortColumnsRejected ==
    [][ \A t \in Tasks :
          ( /\ op[t].kind = "get_photos_in_path" /\ op[t].sort_columns = <<>>
            /\ pc[t] = "locked" /\ Steps(t) )
          => /\ BuildSql(op[t]) = << OrderByHead, ";" >>
             /\ pc'[t] = "done"
             /\ ret'[t].kind = "DatabaseError"
             /\ rows' = rows
             /\ ~db_guard'[t] /\ permits' = 1 ]_vars

\* The only call so far listed /a/b, which holds a record, with no sort
\* column on a store that raised no fault: it came back with DatabaseError,
\* the three records are there and the guard is free.
C20_Witness ==
    \E t \in Tasks :
        /\ calls = 1 /\ faults = 0
        /\ op[t].kind = "get_photos_in_path" /\ op[t].sort_columns = <<>>
        /\ pc[t] = "done" /\ ret[t].kind = "DatabaseError"
        /\ Len(rows) = 3
        /\ \E k \in 1..Len(rows) : rows[k].path = op[t].path
        /\ permits = 1 /\ Holders = {}
====
